---- MODULE Spec2Model ----
(***************************************************************************)
(* Model of the customer-stories scraper (src/script.js).                  *)
(*                                                                         *)
(* The extraction run (script.js:331-638) is one asynchronous function;    *)
(* the model follows its position (pc) from one suspension point to the    *)
(* next.  The asset fetcher downloadImage (script.js:234-280) is modelled  *)
(* as the promise it returns plus the state of its HTTP request and of     *)
(* the destination file.  The web site and the image servers are the       *)
(* environment: what a page shows and how a server answers is drawn from   *)
(* small pools.  Strings are TLA+ strings, and the string functions of     *)
(* the code (trim, replace, regular-expression matches, parseInt,          *)
(* template literals) are computed character by character.                 *)
(*                                                                         *)
(* The browsing front-end CustomerStoriesApp (script.js:1-221) is modelled   *)
(* from the moment it loads the written dataset: its search and filter      *)
(* events and the list it shows.                                             *)
(*                                                                         *)
(* Wall-clock time is not modelled: the timers of the code appear as       *)
(* events that may or may not fire, and the test runner's own time limit   *)
(* (script.js:333) is outside the model.                                   *)
(***************************************************************************)
EXTENDS Integers, Sequences, FiniteSets, TLC

VARIABLES
    profile,        \* which pools the environment draws from (fixed in a run)
    baseUrl,        \* process.env.BASE_URL ("" when it is not set)
    pc,             \* position of the run
    allStories,     \* the accumulated records
    currentPage,    \* the loop's page counter
    hasNextPage,    \* the loop's continuation flag
    cards,          \* the story cards of the page being processed
    signals,        \* the pagination markup read by the last oracle evaluation
    paginationInfo, \* the object the last oracle evaluation returned
    pagesVisited,   \* number of page renders requested so far
    delayed,        \* a waitForTimeout has elapsed since the last oracle evaluation
    cursor,         \* download phase: [i, slot, j] of the asset in hand
    fetch,          \* the downloadImage call in progress, <<>> when none
    files,          \* the media directory: path -> "partial" | "complete"
    attempts,       \* log of the settled downloadImage calls
    orphans,        \* requests still open after their call has settled
    dataset,        \* the written output file, <<>> while not written
    app             \* the browsing front-end, <<>> while it has not loaded

vars == <<profile, baseUrl, pc, allStories, currentPage, hasNextPage, cards,
          signals, paginationInfo, pagesVisited, delayed, cursor, fetch, files,
          attempts, orphans, dataset, app>>

-----------------------------------------------------------------------------
(* Bounds of the model. *)

\* cards shown on one page (profiles "cards" and "assets")
MaxCardsPerPage == 2
\* records of one run (profiles "cards" and "assets")
MaxSiteCards == 2
\* largest X and Y of an announcement "Page X of Y"
MaxAnnounced == 6
\* redirect hops of one downloadImage call that are counted; the hops after
\* these are followed and not counted
MaxRedirects == 1
\* assets with a remote URL among the records of one run
MaxAssets == 3

(* Program constants. *)
MAX_PAGES == 5

-----------------------------------------------------------------------------
(* Strings. *)

Char(s, i) == SubSeq(s, i, i)

\* s.startsWith(prefix)
StartsWith(s, prefix) ==
    /\ Len(s) >= Len(prefix)
    /\ SubSeq(s, 1, Len(prefix)) = prefix

\* the substring sub occurs in s at position i
OccursAt(s, sub, i) ==
    /\ i >= 1
    /\ i + Len(sub) - 1 <= Len(s)
    /\ SubSeq(s, i, i + Len(sub) - 1) = sub

\* s.includes(sub)
Includes(s, sub) == \E i \in 1..(Len(s) + 1) : OccursAt(s, sub, i)

\* position of the first occurrence of sub in s, 0 when there is none
IndexOf(s, sub) ==
    IF Includes(s, sub)
    THEN CHOOSE i \in 1..(Len(s) + 1) :
            /\ OccursAt(s, sub, i)
            /\ \A k \in 1..(i - 1) : ~OccursAt(s, sub, k)
    ELSE 0

\* s.replace(sub, ''): the first occurrence only
RemoveFirst(s, sub) ==
    LET i == IndexOf(s, sub)
    IN  IF i = 0 THEN s
        ELSE SubSeq(s, 1, i - 1) \o SubSeq(s, i + Len(sub), Len(s))

IsSpace(c) == c \in {" ", "\t", "\n"}

RECURSIVE TrimLeft(_)
TrimLeft(s) ==
    IF Len(s) > 0 /\ IsSpace(Char(s, 1))
    THEN TrimLeft(SubSeq(s, 2, Len(s)))
    ELSE s

RECURSIVE TrimRight(_)
TrimRight(s) ==
    IF Len(s) > 0 /\ IsSpace(Char(s, Len(s)))
    THEN TrimRight(SubSeq(s, 1, Len(s) - 1))
    ELSE s

\* s.trim()
Trim(s) == TrimRight(TrimLeft(s))

UpperChars == <<"A", "B", "C", "D", "E", "F", "G", "H", "I", "J", "K", "L", "M",
                "N", "O", "P", "Q", "R", "S", "T", "U", "V", "W", "X", "Y", "Z">>
LowerChars == <<"a", "b", "c", "d", "e", "f", "g", "h", "i", "j", "k", "l", "m",
                "n", "o", "p", "q", "r", "s", "t", "u", "v", "w", "x", "y", "z">>
DigitChars == <<"0", "1", "2", "3", "4", "5", "6", "7", "8", "9">>

IsUpper(c) == \E k \in 1..Len(UpperChars) : UpperChars[k] = c
IsLower(c) == \E k \in 1..Len(LowerChars) : LowerChars[k] = c
IsDigit(c) == \E k \in 1..Len(DigitChars) : DigitChars[k] = c

LowerChar(c) ==
    IF IsUpper(c)
    THEN LowerChars[CHOOSE k \in 1..Len(UpperChars) : UpperChars[k] = c]
    ELSE c

\* the characters of s from position i on, in lower case
RECURSIVE LowerFrom(_, _)
LowerFrom(s, i) ==
    IF i > Len(s) THEN ""
    ELSE LowerChar(Char(s, i)) \o LowerFrom(s, i + 1)

\* s.toLowerCase(); the set constructor has s evaluated once
ToLowerCase(s) == CHOOSE r \in {LowerFrom(v, 1) : v \in {s}} : TRUE

DigitValue(c) == (CHOOSE k \in 1..Len(DigitChars) : DigitChars[k] = c) - 1

\* length of the run of digits of s that starts at position i
RECURSIVE DigitRun(_, _)
DigitRun(s, i) ==
    IF i <= Len(s) /\ IsDigit(Char(s, i)) THEN 1 + DigitRun(s, i + 1) ELSE 0

\* value of the digit string s, most significant digit first
RECURSIVE DigitsValue(_)
DigitsValue(s) ==
    IF Len(s) = 0 THEN 0
    ELSE 10 * DigitsValue(SubSeq(s, 1, Len(s) - 1)) + DigitValue(Char(s, Len(s)))

NaN == -1

\* parseInt(s) for the texts of the model: leading white space, then digits;
\* NaN when no digit follows (no sign occurs in the pools)
ParseInt(s) ==
    LET t == TrimLeft(s)
        n == DigitRun(t, 1)
    IN  IF n = 0 THEN NaN ELSE DigitsValue(SubSeq(t, 1, n))


-----------------------------------------------------------------------------
(* Optional values: <<>> is null / undefined / an element that is not in    *)
(* the document, <<v>> is the value v.                                      *)

Null == <<>>
Some(v) == <<v>>
IsNull(o) == o = <<>>
Val(o) == o[1]

\* attr || '' and element ? element.textContent : ''
OrEmpty(o) == IF IsNull(o) THEN "" ELSE Val(o)

-----------------------------------------------------------------------------
(* Record Extractor: the page.evaluate callback of script.js:371-431.       *)
(* A card of the document is                                                *)
(*   [title, industry : optional text of the element,                       *)
(*    links    : the href of every anchor of the card, in document order,   *)
(*    logo     : optional src of '.media__slot img',                        *)
(*    header   : optional [src, alt] of '.card__media .ocr-img img',        *)
(*    products : the '.related-products__product' elements, each            *)
(*               [label : optional text, img : optional [src, alt]]]        *)

StoryHref == "/customers/story/"

\* card.querySelector('a[href*="/customers/story/"]'): the first such anchor
StoryLink(card) ==
    LET hits == {k \in 1..Len(card.links) : Includes(card.links[k], StoryHref)}
    IN  IF hits = {} THEN Null
        ELSE Some(card.links[CHOOSE k \in hits : \A m \in hits : k <= m])

\* one product element: pushed only when it has a label
ExtractProduct(product) ==
    IF IsNull(product.label) THEN <<>>
    ELSE << [ name      |-> Trim(Val(product.label)),
              icon      |-> IF IsNull(product.img) THEN "" ELSE Val(product.img).src,
              iconAlt   |-> IF IsNull(product.img) THEN "" ELSE Val(product.img).alt,
              iconLocal |-> Null ] >>

RECURSIVE ExtractProducts(_)
ExtractProducts(elements) ==
    IF Len(elements) = 0 THEN <<>>
    ELSE ExtractProduct(Head(elements)) \o ExtractProducts(Tail(elements))

\* `p${pageNum}_${index + 1}`
GlobalIdDroppingPage(pageNum, position) == "p1_" \o ToString(position)

GlobalId(pageNum, position) ==
    "p" \o ToString(pageNum) \o "_" \o ToString(position)

\* the record pushed for a card at 0-based index `index`
MakeStory(card, pageNum, index) ==
    [ page           |-> pageNum,
      positionOnPage |-> index + 1,
      globalId       |-> GlobalId(pageNum, index + 1),
      title          |-> Trim(Val(card.title)),
      industry       |-> IF IsNull(card.industry) THEN ""
                         ELSE Trim(RemoveFirst(Val(card.industry), "Industry: ")),
      storyUrl       |-> Val(StoryLink(card)),
      company        |-> [ logo |-> OrEmpty(card.logo), logoLocal |-> Null ],
      media          |-> [ headerImage      |-> IF IsNull(card.header) THEN ""
                                                ELSE Val(card.header).src,
                           headerImageAlt   |-> IF IsNull(card.header) THEN ""
                                                ELSE Val(card.header).alt,
                           headerImageLocal |-> Null ],
      microsoftProducts |-> ExtractProducts(card.products) ]

\* if (titleElement && storyLink)
CardAccepted(card) == ~IsNull(card.title) /\ ~IsNull(StoryLink(card))

\* cards.forEach((card, index) => ...) from 0-based index `index` on
RECURSIVE ExtractFrom(_, _, _)
ExtractFrom(cardList, pageNum, index) ==
    IF index >= Len(cardList) THEN <<>>
    ELSE (IF CardAccepted(cardList[index + 1])
          THEN << MakeStory(cardList[index + 1], pageNum, index) >>
          ELSE <<>>)
         \o ExtractFrom(cardList, pageNum, index + 1)

PageStories(cardList, pageNum) == ExtractFrom(cardList, pageNum, 0)

-----------------------------------------------------------------------------
(* Pagination Oracle: the page.evaluate callback of script.js:437-496.      *)
(* The pagination markup of a page is                                       *)
(*   [container    : "absent" | "shown" | "hidden"  (class d-none),         *)
(*    showValue, showTotal, announcement : optional text of the element,    *)
(*    nextButton   : "absent" | "enabled" | "disabledClass" | "ariaDisabled"] *)

\* a === b on numbers: NaN equals nothing
StrictEq(a, b) == a # NaN /\ b # NaN /\ a = b

\* x > 0 on numbers: false for NaN
PositiveOrZero(x) == x # NaN /\ x >= 0

Positive(x) == x # NaN /\ x > 0

\* text.match(/Page (\d+) of (\d+)/) succeeds at position i
MatchesAt(text, i) ==
    LET n1 == DigitRun(text, i + 5)
        n2 == DigitRun(text, i + 5 + n1 + 4)
    IN  /\ OccursAt(text, "Page ", i)
        /\ n1 > 0
        /\ OccursAt(text, " of ", i + 5 + n1)
        /\ n2 > 0

\* the two groups of the leftmost match, Null when the text does not match
PageMatch(text) ==
    LET hits == {i \in 1..Len(text) : MatchesAt(text, i)}
    IN  IF hits = {} THEN Null
        ELSE LET i  == CHOOSE k \in hits : \A m \in hits : k <= m
                 n1 == DigitRun(text, i + 5)
                 n2 == DigitRun(text, i + 5 + n1 + 4)
             IN  Some(<< SubSeq(text, i + 5, i + 4 + n1),
                         SubSeq(text, i + 9 + n1, i + 8 + n1 + n2) >>)

\* hasNext of the announcement branch: currentPage < totalPages
AnnouncedHasNextOffByOne(x, y) == x <= y

AnnouncedHasNext(x, y) == x < y

PaginationInfo(dom) ==
    LET isPaginationHidden  == dom.container = "hidden"
        currentShowing      == IF IsNull(dom.showValue) THEN 0
                               ELSE ParseInt(Val(dom.showValue))
        totalResults        == IF IsNull(dom.showTotal) THEN 0
                               ELSE ParseInt(Val(dom.showTotal))
        allResultsOnOnePage == StrictEq(currentShowing, totalResults)
                               /\ Positive(totalResults)
        match               == PageMatch(OrEmpty(dom.announcement))
        \* nextButton && (...): null when the control is not in the document
        nextButtonDisabled  == IF dom.nextButton = "absent" THEN Null
                               ELSE Some(dom.nextButton \in {"disabledClass", "ariaDisabled"})
    IN  IF isPaginationHidden /\ allResultsOnOnePage
        THEN [ currentPage |-> Some(1), totalPages |-> Some(1),
               hasNext |-> FALSE, singlePage |-> Some(TRUE),
               reason |-> "pagination hidden and all results shown" ]
        ELSE IF ~IsNull(match)
        THEN LET x == DigitsValue(Val(match)[1])
                 y == DigitsValue(Val(match)[2])
             IN  [ currentPage |-> Some(x), totalPages |-> Some(y),
                   hasNext |-> AnnouncedHasNext(x, y), singlePage |-> Some(y = 1),
                   reason |-> "pagination announcement" ]
        ELSE [ currentPage |-> Null, totalPages |-> Null,
               hasNext |-> (nextButtonDisabled # Some(TRUE)),
               singlePage |-> nextButtonDisabled,
               reason |-> "next button state" ]

\* truthiness of an optional boolean and of an optional number
TruthyFlag(o) == o = Some(TRUE)
TruthyNumber(o) == ~IsNull(o) /\ Val(o) # 0 /\ Val(o) # NaN

\* script.js:501-516: TRUE when the loop goes on to the next page
Continues(info, pageCounter) ==
    /\ ~TruthyFlag(info.singlePage)
    /\ ~(TruthyNumber(info.totalPages) /\ pageCounter >= Val(info.totalPages))
    /\ info.hasNext # FALSE

-----------------------------------------------------------------------------
(* File names of the assets: script.js:288-316 and 538-573. *)

KnownExtensions == <<"jpg", "jpeg", "png", "gif", "webp", "svg">>

\* /\.(jpg|jpeg|png|gif|webp|svg)(\?.*)?$/i matches at position i with
\* alternative e
ExtensionAt(url, i, e) ==
    LET after == i + 1 + Len(e)
    IN  /\ Char(url, i) = "."
        /\ i + Len(e) <= Len(url)
        /\ ToLowerCase(SubSeq(url, i + 1, i + Len(e))) = e
        /\ \/ after = Len(url) + 1
           \/ Char(url, after) = "?"

\* getImageExtension(url): contentType is '' at every call site, so the
\* content-type tests all fail and the default is 'jpg'
GetImageExtension(url) ==
    LET hits == {h \in (1..Len(url)) \X (1..Len(KnownExtensions)) :
                    ExtensionAt(url, h[1], KnownExtensions[h[2]])}
    IN  IF hits = {} THEN "jpg"
        ELSE KnownExtensions[(CHOOSE h \in hits : \A g \in hits : h[1] <= g[1])[2]]

\* generateImageFilename(companyName, globalId, type, extension)
GenerateImageFilename(companyName, globalId, type, extension) ==
    globalId \o "_" \o type \o "." \o extension

\* name.replace(/[^a-zA-Z0-9]/g, '_').toLowerCase()
RECURSIVE ReplaceNonAlnumFrom(_, _)
ReplaceNonAlnumFrom(s, i) ==
    IF i > Len(s) THEN ""
    ELSE (IF IsUpper(Char(s, i)) \/ IsLower(Char(s, i)) \/ IsDigit(Char(s, i))
          THEN Char(s, i) ELSE "_")
         \o ReplaceNonAlnumFrom(s, i + 1)

ReplaceNonAlnum(s) == CHOOSE r \in {ReplaceNonAlnumFrom(v, 1) : v \in {s}} : TRUE

ProductSafeName(name) == ToLowerCase(ReplaceNonAlnum(name))

(* The assets of a record are numbered in the order the download loop      *)
(* takes them: 1 the logo, 2 the header image, 2 + j the icon of product j. *)

NumSlots(story) == 2 + Len(story.microsoftProducts)

AssetUrl(story, k) ==
    IF k = 1 THEN story.company.logo
    ELSE IF k = 2 THEN story.media.headerImage
    ELSE story.microsoftProducts[k - 2].icon

AssetType(story, k) ==
    IF k = 1 THEN "logo"
    ELSE IF k = 2 THEN "header"
    ELSE "product_" \o ProductSafeName(story.microsoftProducts[k - 2].name)

AssetFilename(story, k) ==
    GenerateImageFilename("", story.globalId, AssetType(story, k),
                          GetImageExtension(AssetUrl(story, k)))

\* path.join(mediaDir, filename), relative to the working directory
AssetPath(story, k) == "media/" \o AssetFilename(story, k)

AssetLocal(story, k) ==
    IF k = 1 THEN story.company.logoLocal
    ELSE IF k = 2 THEN story.media.headerImageLocal
    ELSE story.microsoftProducts[k - 2].iconLocal

\* story.company.logoLocal = ..., story.media.headerImageLocal = ...,
\* story.microsoftProducts[j].iconLocal = ...
SetLocal(story, k, value) ==
    IF k = 1 THEN [story EXCEPT !.company.logoLocal = Some(value)]
    ELSE IF k = 2 THEN [story EXCEPT !.media.headerImageLocal = Some(value)]
    ELSE [story EXCEPT !.microsoftProducts[k - 2].iconLocal = Some(value)]

\* if (story.company?.logo), if (story.media?.headerImage), if (... product.icon)
TruthyAlsoWhenEmpty(url) == TRUE

Truthy(url) == url # ""

\* the first asset at or after (i, k) whose remote URL is truthy; i is past
\* the last record when there is none
RECURSIVE Seek(_, _, _)
Seek(stories, i, k) ==
    IF i > Len(stories) THEN [i |-> Len(stories) + 1, k |-> 1]
    ELSE IF k > NumSlots(stories[i]) THEN Seek(stories, i + 1, 1)
    ELSE IF Truthy(AssetUrl(stories[i], k)) THEN [i |-> i, k |-> k]
    ELSE Seek(stories, i, k + 1)

-----------------------------------------------------------------------------
(* Dataset Writer: script.js:618-635. *)

\* allStories.reduce((acc, story) => { acc[story.page] = (acc[story.page] || 0) + 1 ... }, {})
RECURSIVE CountPerPageOverwriting(_, _)
CountPerPageOverwriting(stories, acc) ==
    IF Len(stories) = 0 THEN acc
    ELSE LET key == ToString(Head(stories).page)
         IN  CountPerPageOverwriting(Tail(stories),
                          [x \in DOMAIN acc \cup {key} |->
                              IF x = key THEN 1 ELSE acc[x]])

RECURSIVE CountPerPage(_, _)
CountPerPage(stories, acc) ==
    IF Len(stories) = 0 THEN acc
    ELSE LET key == ToString(Head(stories).page)
             old == IF key \in DOMAIN acc THEN acc[key] ELSE 0
         IN  CountPerPage(Tail(stories),
                          [x \in DOMAIN acc \cup {key} |->
                              IF x = key THEN old + 1 ELSE acc[x]])

PaginatedResults(stories, pageCounter, seed) ==
    [ metadata |-> [ totalPages     |-> pageCounter,
                     totalStories   |-> Len(stories),
                     baseUrl        |-> seed,
                     storiesPerPage |-> CountPerPage(stories, <<>>) ],
      stories  |-> stories ]

-----------------------------------------------------------------------------
(* The environment: what the site shows and how the image servers answer.  *)
(* A run draws from the pools of one profile.  "listing" exercises the     *)
(* page loop: one plain card per page and every combination of pagination  *)
(* markup.  "cards" exercises extraction: cards with and without title     *)
(* and story link.  "assets" exercises the downloads: cards with images    *)
(* and product icons.  The front-end is opened on the datasets of the      *)
(* first two.                                                               *)

Profiles == {"listing", "cards", "assets"}

Seed == "https://site/search?f=1"

StoryAnchor == "/customers/story/acme"

PlainCard ==
    [ title |-> Some("Acme"), industry |-> Some("Industry: Retail"),
      links |-> <<StoryAnchor>>, logo |-> Null, header |-> Null,
      products |-> <<>> ]

\* a logo with an upper-case extension and a query string
CardLogo ==
    [ title |-> Some(" Contoso "), industry |-> Null,
      links |-> <<"/promo", StoryAnchor>>, logo |-> Some("https://h/l.PNG?v=1"),
      header |-> Null, products |-> <<>> ]

\* a logo given inline as a data: URL
CardInlineLogo ==
    [ title |-> Some("Fabrikam"), industry |-> Some("Energy"),
      links |-> <<StoryAnchor>>, logo |-> Some("data:image/png;base64,AA"),
      header |-> Null, products |-> <<>> ]

\* a header image whose URL has no extension
CardHeader ==
    [ title |-> Some("Northwind"), industry |-> Null,
      links |-> <<StoryAnchor>>, logo |-> Null,
      header |-> Some([src |-> "http://h/hero", alt |-> "Hero"]),
      products |-> <<>> ]

\* two products whose names sanitize to the same string, one product element
\* without a label, one product without an icon
CardProducts ==
    [ title |-> Some("Adatum"), industry |-> Null,
      links |-> <<StoryAnchor>>, logo |-> Null, header |-> Null,
      products |-> << [label |-> Some(" Azure AI "),
                       img |-> Some([src |-> "https://h/a.svg", alt |-> "AI"])],
                      [label |-> Null,
                       img |-> Some([src |-> "https://h/x.svg", alt |-> ""])],
                      [label |-> Some("azure-ai"),
                       img |-> Some([src |-> "http://h/b.svg", alt |-> ""])],
                      [label |-> Some("Teams"), img |-> Null] >> ]

\* the title element is there, its text is white space
CardBlankTitle ==
    [ title |-> Some("  "), industry |-> Null,
      links |-> <<StoryAnchor>>, logo |-> Null, header |-> Null,
      products |-> <<>> ]

\* a promotional card: no title element
CardNoTitle ==
    [ title |-> Null, industry |-> Null,
      links |-> <<StoryAnchor>>, logo |-> Some("https://h/promo.gif"),
      header |-> Null, products |-> <<>> ]

\* a card without a story link
CardNoLink ==
    [ title |-> Some("Promo"), industry |-> Null,
      links |-> <<"/promo">>, logo |-> Null, header |-> Null,
      products |-> <<>> ]

CardPool(prof) ==
    IF prof = "listing" THEN {PlainCard}
    ELSE IF prof = "cards" THEN {PlainCard, CardBlankTitle, CardNoTitle, CardNoLink}
    ELSE {CardLogo, CardInlineLogo, CardHeader, CardProducts}

\* sequences over S of length 0..n
RECURSIVE SeqsUpTo(_, _)
SeqsUpTo(S, n) ==
    IF n = 0 THEN {<<>>}
    ELSE LET shorter == SeqsUpTo(S, n - 1)
         IN  shorter \cup {Append(q, c) : q \in shorter, c \in S}

\* number of assets of the records that have a remote URL
RECURSIVE AssetCount(_)
AssetCount(stories) ==
    IF Len(stories) = 0 THEN 0
    ELSE Cardinality({k \in 1..NumSlots(Head(stories)) :
                         Truthy(AssetUrl(Head(stories), k))})
         + AssetCount(Tail(stories))

\* the card lists a page may show, given the records accumulated so far
PagePool(prof, accumulated) ==
    IF prof = "listing" THEN SeqsUpTo(CardPool(prof), 1)
    ELSE {list \in SeqsUpTo(CardPool(prof), MaxCardsPerPage) :
            /\ Len(accumulated) + Len(list) <= MaxSiteCards
            /\ AssetCount(accumulated) + AssetCount(PageStories(list, 1)) <= MaxAssets}

AnnouncementText(x, y) == "Page " \o ToString(x) \o " of " \o ToString(y)

AnnouncementPool ==
    {Null, Some("Page one of two")}
    \cup {Some(AnnouncementText(x, y)) : x \in 0..MaxAnnounced, y \in 0..MaxAnnounced}

CountPool == {Null, Some("0"), Some("12"), Some("n/a")}

\* the pagination markup a page may show
SignalPool(prof) ==
    IF prof = "listing"
    THEN [ container : {"absent", "shown", "hidden"},
           showValue : CountPool, showTotal : CountPool,
           announcement : AnnouncementPool,
           nextButton : {"absent", "enabled", "disabledClass", "ariaDisabled"} ]
    ELSE [ container : {"shown"}, showValue : {Some("12")}, showTotal : {Some("24")},
           announcement : {Null},
           nextButton : {"enabled", "disabledClass"} ]

\* the Location header of a redirect: "" when the header is missing
LocationPool == {"", "https://cdn/r.png"}

-----------------------------------------------------------------------------
(* The run: the test body of script.js:331-638. *)

Init ==
    /\ profile \in Profiles
    /\ baseUrl \in {"", Seed}
    /\ pc = "start"
    /\ allStories = <<>>
    /\ currentPage = 1
    /\ hasNextPage = TRUE
    /\ cards = <<>>
    /\ signals = Null
    /\ paginationInfo = Null
    /\ pagesVisited = 0
    /\ delayed = FALSE
    /\ cursor = [i |-> 1, k |-> 1]
    /\ fetch = Null
    /\ files = <<>>
    /\ attempts = <<>>
    /\ orphans = {}
    /\ dataset = Null
    /\ app = Null

\* script.js:340-344: if (!baseUrl) throw
CheckBaseUrl ==
    /\ pc = "start"
    /\ pc' = IF baseUrl = "" THEN "failed" ELSE "loop"
    /\ UNCHANGED <<app, delayed, profile, baseUrl, allStories, currentPage, hasNextPage, cards,
                   signals, paginationInfo, pagesVisited, cursor, fetch, files,
                   attempts, dataset, orphans>>

\* the loop test of script.js:352
LoopTestWithoutCap(more, pageCounter) == more

LoopTest(more, pageCounter) == more /\ pageCounter <= MAX_PAGES

\* script.js:352-356: the loop test holds, page.goto(pageUrl) is issued
GotoPage ==
    /\ pc = "loop"
    /\ LoopTest(hasNextPage, currentPage)
    /\ pagesVisited' = pagesVisited + 1
    /\ signals' = Null
    /\ paginationInfo' = Null
    /\ pc' = "waitSelector"
    /\ UNCHANGED <<app, delayed, profile, baseUrl, allStories, currentPage, hasNextPage, cards,
                   cursor, fetch, files, attempts, dataset, orphans>>

\* page.goto or page.waitForSelector throws: nothing catches it
PcAfterRenderFailureRetrying == "loop"

PcAfterRenderFailure == "failed"

\* script.js:356-359: the content anchor appears, or the navigation or the
\* bounded wait throws
WaitForSelector ==
    /\ pc = "waitSelector"
    /\ \/ pc' = "settle"
       \/ pc' = PcAfterRenderFailure
    /\ UNCHANGED <<app, delayed, profile, baseUrl, allStories, currentPage, hasNextPage, cards,
                   signals, paginationInfo, pagesVisited, cursor, fetch, files,
                   attempts, dataset, orphans>>

\* script.js:360: page.waitForTimeout(3000)
SettleDelay ==
    /\ pc = "settle"
    /\ delayed' = TRUE
    /\ pc' = "query"
    /\ UNCHANGED <<app, profile, baseUrl, allStories, currentPage, hasNextPage, cards,
                   signals, paginationInfo, pagesVisited, cursor, fetch, files,
                   attempts, dataset, orphans>>

\* script.js:365-368: if (storyCards.length === 0) break
PcAfterQueryWithoutBreak(list) == "extract"

PcAfterQuery(list) == IF Len(list) = 0 THEN "validate" ELSE "extract"

\* script.js:363-368: page.$$('.card--style-customer-story'); no card: break
QueryCards ==
    /\ pc = "query"
    /\ \E list \in PagePool(profile, allStories) :
          /\ cards' = list
          /\ pc' = PcAfterQuery(list)
    /\ UNCHANGED <<app, delayed, profile, baseUrl, allStories, currentPage, hasNextPage,
                   signals, paginationInfo, pagesVisited, cursor, fetch, files,
                   attempts, dataset, orphans>>

\* script.js:433: allStories.push(...pageStories)
PushFront(stories, pageStories) == pageStories \o stories

Push(stories, pageStories) == stories \o pageStories

\* script.js:371-434: extract the page's records and append them
ExtractStories ==
    /\ pc = "extract"
    /\ allStories' = Push(allStories, PageStories(cards, currentPage))
    /\ pc' = "paginfo"
    /\ UNCHANGED <<app, delayed, profile, baseUrl, currentPage, hasNextPage, cards,
                   signals, paginationInfo, pagesVisited, cursor, fetch, files,
                   attempts, dataset, orphans>>

\* script.js:437-496: evaluate the pagination markup
EvalPagination ==
    /\ pc = "paginfo"
    /\ \E dom \in SignalPool(profile) :
          /\ signals' = Some(dom)
          /\ paginationInfo' = Some(PaginationInfo(dom))
    /\ cards' = <<>>
    /\ delayed' = FALSE
    /\ pc' = "decide"
    /\ UNCHANGED <<app, profile, baseUrl, allStories, currentPage, hasNextPage,
                   pagesVisited, cursor, fetch, files, attempts, dataset, orphans>>

\* script.js:501-516: stop, or count the page up
Decide ==
    /\ pc = "decide"
    /\ IF Continues(Val(paginationInfo), currentPage)
       THEN /\ currentPage' = currentPage + 1
            /\ hasNextPage' = hasNextPage
       ELSE /\ hasNextPage' = FALSE
            /\ currentPage' = currentPage
    /\ pc' = "loop"
    /\ UNCHANGED <<app, delayed, profile, baseUrl, allStories, cards, signals, paginationInfo,
                   pagesVisited, cursor, fetch, files, attempts, dataset, orphans>>

\* script.js:352: the loop test fails
ExitLoop ==
    /\ pc = "loop"
    /\ ~LoopTest(hasNextPage, currentPage)
    /\ signals' = Null
    /\ paginationInfo' = Null
    /\ pc' = "validate"
    /\ UNCHANGED <<app, delayed, profile, baseUrl, allStories, currentPage, hasNextPage, cards,
                   pagesVisited, cursor, fetch, files, attempts, dataset, orphans>>

\* script.js:520: expect(allStories.length).toBeGreaterThan(0)
ValidationPasses(stories) == Len(stories) > 0

\* script.js:519-531: validate, then enter the download loop
Validate ==
    /\ pc = "validate"
    /\ IF ValidationPasses(allStories)
       THEN /\ pc' = "download"
            /\ cursor' = Seek(allStories, 1, 1)
       ELSE /\ pc' = "failed"
            /\ cursor' = cursor
    /\ cards' = <<>>
    /\ UNCHANGED <<app, delayed, profile, baseUrl, allStories, currentPage, hasNextPage,
                   signals, paginationInfo, pagesVisited, fetch, files,
                   attempts, dataset, orphans>>

-----------------------------------------------------------------------------
(* Asset Fetcher: downloadImage, script.js:234-280.  A call is              *)
(*   [promise : "pending" | "resolvedPath" | "resolvedNull" | "rejected",   *)
(*    error   : what it was rejected with, "" while it is not rejected,     *)
(*    request : "none" | "sent" | "piping" | "closed", the newest request,  *)
(*    url, path, hops : the URL requested, the destination, redirects so far] *)

\* if (!imageUrl || imageUrl.startsWith('data:')) return null
NothingToFetch(imageUrl) == imageUrl = "" \/ StartsWith(imageUrl, "data:")

\* the call as it stands when downloadImage returns its promise
DownloadImage(imageUrl, localPath, hops) ==
    IF NothingToFetch(imageUrl)
    THEN [ promise |-> "resolvedNull", error |-> "", request |-> "none",
           url |-> imageUrl, path |-> localPath, hops |-> hops ]
    ELSE [ promise |-> "pending", error |-> "", request |-> "sent",
           url |-> imageUrl, path |-> localPath, hops |-> hops ]

Story == allStories[cursor.i]

InDownload == pc = "download" /\ cursor.i <= Len(allStories)

Pending == ~IsNull(fetch) /\ Val(fetch).promise = "pending"

\* script.js:537-543, 552-558, 569-576: the next asset with a remote URL
BeginAsset ==
    /\ InDownload
    /\ IsNull(fetch)
    /\ fetch' = Some(DownloadImage(AssetUrl(Story, cursor.k),
                                   AssetPath(Story, cursor.k), 0))
    /\ UNCHANGED <<app, delayed, profile, baseUrl, pc, allStories, currentPage, hasNextPage,
                   cards, signals, paginationInfo, pagesVisited, cursor, files,
                   attempts, dataset, orphans>>

\* script.js:249-251: status 200, the destination is opened and written to
Respond200 ==
    /\ Pending
    /\ Val(fetch).request = "sent"
    /\ files' = [p \in DOMAIN files \cup {Val(fetch).path} |->
                    IF p = Val(fetch).path THEN "partial" ELSE files[p]]
    /\ fetch' = Some([Val(fetch) EXCEPT !.request = "piping"])
    /\ UNCHANGED <<app, delayed, profile, baseUrl, pc, allStories, currentPage, hasNextPage,
                   cards, signals, paginationInfo, pagesVisited, cursor,
                   attempts, dataset, orphans>>

\* the hop count after one more redirect
CountHop(hops) == IF hops < MaxRedirects THEN hops + 1 ELSE hops

\* the Location headers a server may answer the call in hand with: those of
\* the pool and, closing a cycle, the asset's own URL; a redirect to the URL
\* just requested is left out
Locations == (LocationPool \cup {AssetUrl(Story, cursor.k)}) \ {Val(fetch).url}

\* script.js:262-266: status 301 or 302, downloadImage is called again with
\* the Location header; its promise settles this one.  No hop is the last:
\* the code has no limit
RespondRedirect ==
    /\ Pending
    /\ Val(fetch).request = "sent"
    /\ \E status \in {301, 302}, location \in Locations :
          fetch' = Some(DownloadImage(location, Val(fetch).path,
                                      CountHop(Val(fetch).hops)))
    /\ UNCHANGED <<app, delayed, profile, baseUrl, pc, allStories, currentPage, hasNextPage,
                   cards, signals, paginationInfo, pagesVisited, cursor, files,
                   attempts, dataset, orphans>>

\* reject(err): the promise is rejected, the newest request is closed
Rejected(call, err) ==
    [call EXCEPT !.promise = "rejected", !.error = err, !.request = "closed"]

\* script.js:267-269: any other status
RespondFailure ==
    /\ Pending
    /\ Val(fetch).request = "sent"
    /\ \E status \in {404, 500} :
          fetch' = Some(Rejected(Val(fetch), "Failed to download image"))
    /\ UNCHANGED <<app, delayed, profile, baseUrl, pc, allStories, currentPage, hasNextPage,
                   cards, signals, paginationInfo, pagesVisited, cursor, files,
                   attempts, dataset, orphans>>

\* script.js:270-272: the request emits 'error'
RequestError ==
    /\ Pending
    /\ Val(fetch).request = "sent"
    /\ fetch' = Some(Rejected(Val(fetch), "request error"))
    /\ UNCHANGED <<app, delayed, profile, baseUrl, pc, allStories, currentPage, hasNextPage,
                   cards, signals, paginationInfo, pagesVisited, cursor, files,
                   attempts, dataset, orphans>>

\* script.js:253-256: the file stream finishes
StreamFinish ==
    /\ Pending
    /\ Val(fetch).request = "piping"
    /\ files' = [files EXCEPT ![Val(fetch).path] = "complete"]
    /\ fetch' = Some([Val(fetch) EXCEPT !.promise = "resolvedPath",
                                        !.request = "closed"])
    /\ UNCHANGED <<app, delayed, profile, baseUrl, pc, allStories, currentPage, hasNextPage,
                   cards, signals, paginationInfo, pagesVisited, cursor,
                   attempts, dataset, orphans>>

\* fs.unlink(localPath)
Unlink(dir, path) == [p \in DOMAIN dir \ {path} |-> dir[p]]

\* script.js:258-261: the file stream emits 'error'; the file is unlinked
StreamError ==
    /\ Pending
    /\ Val(fetch).request = "piping"
    /\ files' = Unlink(files, Val(fetch).path)
    /\ fetch' = Some(Rejected(Val(fetch), "write error"))
    /\ UNCHANGED <<app, delayed, profile, baseUrl, pc, allStories, currentPage, hasNextPage,
                   cards, signals, paginationInfo, pagesVisited, cursor,
                   attempts, dataset, orphans>>

\* script.js:275-278: the socket of the newest request is idle for 30 s,
\* before the response or during the transfer: request.destroy() and reject
RequestTimeout ==
    /\ Pending
    /\ Val(fetch).request \in {"sent", "piping"}
    /\ fetch' = Some(Rejected(Val(fetch), "Download timeout"))
    /\ UNCHANGED <<app, delayed, profile, baseUrl, pc, allStories, currentPage, hasNextPage,
                   cards, signals, paginationInfo, pagesVisited, cursor, files,
                   attempts, dataset, orphans>>

\* script.js:262-266 with 275-278: the request of an earlier hop was left
\* open with its 30 s timer armed; the timer fires while a later hop is
\* still at work: the promise is rejected, the later request goes on
EarlierHopTimeout ==
    /\ Pending
    /\ Val(fetch).hops > 0
    /\ fetch' = Some([Val(fetch) EXCEPT !.promise = "rejected",
                                        !.error = "Download timeout"])
    /\ UNCHANGED <<app, delayed, profile, baseUrl, pc, allStories, currentPage, hasNextPage,
                   cards, signals, paginationInfo, pagesVisited, cursor, files,
                   attempts, dataset, orphans>>

\* how the caller sees a settled call: the await returns, or it throws
Outcome(promise) ==
    IF promise = "resolvedPath" THEN "ok"
    ELSE IF promise = "resolvedNull" THEN "noop"
    ELSE "failed"

\* script.js:542-548, 557-563, 575-581: the statement after the await runs
\* unless the await threw
LocalAssigned(promise) == promise # "rejected"

\* the catch blocks of script.js:546, 561, 579: the loop goes on
PcAfterUncaughtFailure(promise) ==
    IF promise = "rejected" THEN "failed" ELSE "download"

PcAfterSettle(promise) == "download"

\* the await of downloadImage returns or throws; the loop moves to the next
\* asset with a remote URL
SettleAsset ==
    /\ InDownload
    /\ ~IsNull(fetch)
    /\ Val(fetch).promise # "pending"
    /\ allStories' =
          IF LocalAssigned(Val(fetch).promise)
          THEN [allStories EXCEPT ![cursor.i] =
                   SetLocal(@, cursor.k, "media/" \o AssetFilename(@, cursor.k))]
          ELSE allStories
    /\ attempts' = Append(attempts, [ i |-> cursor.i, k |-> cursor.k,
                                      path |-> Val(fetch).path,
                                      outcome |-> Outcome(Val(fetch).promise) ])
    /\ cursor' = Seek(allStories, cursor.i, cursor.k + 1)
    /\ orphans' = IF Val(fetch).request \in {"sent", "piping"}
                  THEN orphans \cup {[ path |-> Val(fetch).path,
                                       request |-> Val(fetch).request ]}
                  ELSE orphans
    /\ fetch' = Null
    /\ pc' = PcAfterSettle(Val(fetch).promise)
    /\ UNCHANGED <<app, delayed, profile, baseUrl, currentPage, hasNextPage, cards, signals,
                   paginationInfo, pagesVisited, files, dataset>>

\* a request whose call has settled gets status 200: the destination is
\* opened and written to (script.js:249-251)
OrphanRespond200 ==
    \E o \in orphans :
        /\ o.request = "sent"
        /\ files' = [p \in DOMAIN files \cup {o.path} |->
                        IF p = o.path THEN "partial" ELSE files[p]]
        /\ orphans' = (orphans \ {o}) \cup {[o EXCEPT !.request = "piping"]}
        /\ UNCHANGED <<app, delayed, profile, baseUrl, pc, allStories, currentPage, hasNextPage,
                       cards, signals, paginationInfo, pagesVisited, cursor,
                       fetch, attempts, dataset>>

\* its file stream finishes (script.js:253-256); resolve has no effect
OrphanFinish ==
    \E o \in orphans :
        /\ o.request = "piping"
        /\ files' = [files EXCEPT ![o.path] = "complete"]
        /\ orphans' = orphans \ {o}
        /\ UNCHANGED <<app, delayed, profile, baseUrl, pc, allStories, currentPage, hasNextPage,
                       cards, signals, paginationInfo, pagesVisited, cursor,
                       fetch, attempts, dataset>>

\* it ends otherwise: another status, a request error, a file stream error
\* (the file is unlinked) or its own timeout; reject has no effect
OrphanFails ==
    \E o \in orphans :
        /\ \/ files' = files
           \/ /\ o.request = "piping"
              /\ o.path \in DOMAIN files
              /\ files' = Unlink(files, o.path)
        /\ orphans' = orphans \ {o}
        /\ UNCHANGED <<app, delayed, profile, baseUrl, pc, allStories, currentPage, hasNextPage,
                       cards, signals, paginationInfo, pagesVisited, cursor,
                       fetch, attempts, dataset>>

\* script.js:531: the test i < allStories.length of the download loop fails
DownloadLoopOverAtOnce(i, stories) == TRUE

DownloadLoopOver(i, stories) == i > Len(stories)

\* script.js:621-635: the download loop is over, the dataset is written
WriteDataset ==
    /\ pc = "download"
    /\ DownloadLoopOver(cursor.i, allStories)
    /\ dataset' = Some(PaginatedResults(allStories, currentPage, baseUrl))
    /\ pc' = "done"
    /\ UNCHANGED <<app, delayed, profile, baseUrl, allStories, currentPage, hasNextPage, cards,
                   signals, paginationInfo, pagesVisited, cursor, fetch, files,
                   attempts, orphans>>

-----------------------------------------------------------------------------
(* Browsing front-end: CustomerStoriesApp, script.js:1-221.  The app is     *)
(*   [stories, filteredStories : records as read from the dataset file,     *)
(*    industries     : the values offered by the industry filter,           *)
(*    searchInput, industryFilter : the values of the two controls,         *)
(*    error          : what the last event handler threw, "" if nothing]    *)

\* JSON.stringify (script.js:635) followed by response.json() (script.js:37):
\* a property whose value is undefined is not in the file
JsonRoundTrip(story) ==
    [ page           |-> story.page,
      positionOnPage |-> story.positionOnPage,
      globalId       |-> story.globalId,
      title          |-> story.title,
      industry       |-> story.industry,
      storyUrl       |-> story.storyUrl,
      company        |-> IF IsNull(story.company.logoLocal)
                         THEN [ logo |-> story.company.logo ]
                         ELSE [ logo      |-> story.company.logo,
                                logoLocal |-> Val(story.company.logoLocal) ],
      media          |-> IF IsNull(story.media.headerImageLocal)
                         THEN [ headerImage    |-> story.media.headerImage,
                                headerImageAlt |-> story.media.headerImageAlt ]
                         ELSE [ headerImage      |-> story.media.headerImage,
                                headerImageAlt   |-> story.media.headerImageAlt,
                                headerImageLocal |-> Val(story.media.headerImageLocal) ],
      microsoftProducts |->
          [ j \in 1..Len(story.microsoftProducts) |->
              LET product == story.microsoftProducts[j]
              IN  IF IsNull(product.iconLocal)
                  THEN [ name |-> product.name, icon |-> product.icon,
                         iconAlt |-> product.iconAlt ]
                  ELSE [ name |-> product.name, icon |-> product.icon,
                         iconAlt |-> product.iconAlt,
                         iconLocal |-> Val(product.iconLocal) ] ] ]

\* what the user may type into the search box
SearchPool == {"", "ACME", "retail"}

\* the runs after which the front-end is opened: the front-end reads titles
\* and industries, which the profile "assets" does not vary
BrowsedProfiles == {"listing", "cards"}

\* script.js:30-47: loadData
LoadedApp(data) ==
    LET loaded == [i \in 1..Len(data.stories) |-> JsonRoundTrip(data.stories[i])]
    IN  [ stories         |-> loaded,
          filteredStories |-> loaded,
          industries      |-> {loaded[i].industry : i \in 1..Len(loaded)} \ {""},
          searchInput     |-> "",
          industryFilter  |-> "",
          error           |-> "" ]

\* script.js:89-92: the search test of one story reaches story.company.name
ReadsCompanyName(story, searchTerm) ==
    /\ searchTerm # ""
    /\ ~Includes(ToLowerCase(story.title), searchTerm)

\* story.company.name.toLowerCase() on a company without a name property
ThrowsTypeError(story, searchTerm) ==
    /\ ReadsCompanyName(story, searchTerm)
    /\ "name" \notin DOMAIN story.company

\* script.js:88-96: the filter callback, for a story it does not throw on
MatchesFilters(story, searchTerm, selectedIndustry) ==
    LET matchesSearch ==
            \/ searchTerm = ""
            \/ Includes(ToLowerCase(story.title), searchTerm)
            \/ Includes(ToLowerCase(story.company.name), searchTerm)
            \/ Includes(ToLowerCase(story.industry), searchTerm)
        matchesIndustry ==
            selectedIndustry = "" \/ story.industry = selectedIndustry
    IN  matchesSearch /\ matchesIndustry

\* script.js:84-101: applyFilters; when the callback throws, filteredStories
\* is not assigned
ApplyFilters(a) ==
    LET searchTerm       == ToLowerCase(a.searchInput)
        selectedIndustry == a.industryFilter
    IN  IF \E i \in 1..Len(a.stories) : ThrowsTypeError(a.stories[i], searchTerm)
        THEN [a EXCEPT !.error = "TypeError"]
        ELSE [a EXCEPT
                !.filteredStories =
                    SelectSeq(a.stories,
                              LAMBDA story :
                                  MatchesFilters(story, searchTerm, selectedIndustry)),
                !.error = ""]

\* script.js:14-23, 30-47: the app is constructed and loads the dataset file
LoadData ==
    /\ profile \in BrowsedProfiles
    /\ ~IsNull(dataset)
    /\ IsNull(app)
    /\ app' = Some(LoadedApp(Val(dataset)))
    /\ UNCHANGED <<delayed, profile, baseUrl, pc, allStories, currentPage,
                   hasNextPage, cards, signals, paginationInfo, pagesVisited,
                   cursor, fetch, files, attempts, orphans, dataset>>

\* script.js:61, 76-78: an input event of the search box
HandleSearch ==
    /\ ~IsNull(app)
    /\ \E text \in SearchPool :
          app' = Some(ApplyFilters([Val(app) EXCEPT !.searchInput = text]))
    /\ UNCHANGED <<delayed, profile, baseUrl, pc, allStories, currentPage,
                   hasNextPage, cards, signals, paginationInfo, pagesVisited,
                   cursor, fetch, files, attempts, orphans, dataset>>

\* script.js:62, 80-82: a change event of the industry filter
HandleFilter ==
    /\ ~IsNull(app)
    /\ \E value \in {""} \cup Val(app).industries :
          app' = Some(ApplyFilters([Val(app) EXCEPT !.industryFilter = value]))
    /\ UNCHANGED <<delayed, profile, baseUrl, pc, allStories, currentPage,
                   hasNextPage, cards, signals, paginationInfo, pagesVisited,
                   cursor, fetch, files, attempts, orphans, dataset>>

Next ==
    \/ CheckBaseUrl
    \/ GotoPage
    \/ WaitForSelector
    \/ SettleDelay
    \/ QueryCards
    \/ ExtractStories
    \/ EvalPagination
    \/ Decide
    \/ ExitLoop
    \/ Validate
    \/ BeginAsset
    \/ Respond200
    \/ RespondRedirect
    \/ RespondFailure
    \/ RequestError
    \/ StreamFinish
    \/ StreamError
    \/ RequestTimeout
    \/ EarlierHopTimeout
    \/ SettleAsset
    \/ OrphanRespond200
    \/ OrphanFinish
    \/ OrphanFails
    \/ WriteDataset
    \/ LoadData
    \/ HandleSearch
    \/ HandleFilter

Spec == Init /\ [][Next]_vars

\* the steps of the scraper and of the servers it talks to
RunNext ==
    \/ CheckBaseUrl
    \/ GotoPage
    \/ WaitForSelector
    \/ SettleDelay
    \/ QueryCards
    \/ ExtractStories
    \/ EvalPagination
    \/ Decide
    \/ ExitLoop
    \/ Validate
    \/ BeginAsset
    \/ Respond200
    \/ RespondRedirect
    \/ RespondFailure
    \/ RequestError
    \/ StreamFinish
    \/ StreamError
    \/ RequestTimeout
    \/ EarlierHopTimeout
    \/ SettleAsset
    \/ WriteDataset

\* the event loop runs every continuation that is ready, every page render
\* settles, and every open request sees a next event: a response, the end of
\* the transfer, an error, or its idle timer
FairSpec == Spec /\ WF_vars(RunNext)

-----------------------------------------------------------------------------
(* Properties. *)

\* the assets <<i, k>> of the records
Slots(stories) ==
    UNION {{<<i, k>> : k \in 1..NumSlots(stories[i])} : i \in 1..Len(stories)}

\* C1: a *Local field is set on a record only if the fetch for that field
\* succeeded, i.e. the call resolved with the written file's path; a no-op
\* (data: URL, redirect without Location) or a failure leaves it unset.
C1_LocalOnlyAfterSuccess ==
    \A a \in Slots(allStories) :
        ~IsNull(AssetLocal(allStories[a[1]], a[2])) =>
            \E n \in 1..Len(attempts) :
                /\ attempts[n].i = a[1]
                /\ attempts[n].k = a[2]
                /\ attempts[n].outcome = "ok"

\* C2: no two asset fetches of a run that wrote a file have the same
\* destination path.
C2_DistinctDestinations ==
    \A m, n \in 1..Len(attempts) :
        (m # n /\ attempts[m].outcome = "ok" /\ attempts[n].outcome = "ok")
            => attempts[m].path # attempts[n].path

\* C3: in a written dataset, metadata.totalPages is the number of pages
\* visited during the page loop.
C3_TotalPagesIsPagesVisited ==
    ~IsNull(dataset) => Val(dataset).metadata.totalPages = pagesVisited

\* the oracle has just read an announcement "Page x of y" and the
\* hidden-pagination signal was not conclusive
Announced(x, y) ==
    /\ pc = "decide"
    /\ Val(signals).announcement = Some(AnnouncementText(x, y))
    /\ Val(paginationInfo).reason = "pagination announcement"

\* the step counts the page up and leaves the continuation flag set
LoopContinues == hasNextPage' /\ currentPage' = currentPage + 1

\* the step clears the continuation flag and leaves the page counter
LoopStops == ~hasNextPage' /\ currentPage' = currentPage

\* C4 as stated: with signal 1 not conclusive and an announcement
\* "Page X of Y", the loop continues exactly when X < Y, whatever the loop's
\* page counter.
C4_ContinueIffXBelowY ==
    [][\A x, y \in 0..MaxAnnounced :
          Announced(x, y) =>
              /\ LoopContinues <=> x < y
              /\ LoopStops <=> ~(x < y)]_vars

\* C4 amended: with signal 1 not conclusive and an announcement
\* "Page X of Y", the loop continues exactly when X < Y and the loop's own
\* page counter is below Y, and stops otherwise.
C4_ContinueIffXAndCounterBelowY ==
    [][\A x, y \in 0..MaxAnnounced :
          Announced(x, y) =>
              /\ LoopContinues <=> (x < y /\ currentPage < y)
              /\ LoopStops <=> ~(x < y /\ currentPage < y)]_vars

\* an announcement with X < Y was read on the second page and the loop went
\* on to the third
C4_Witness ==
    /\ pc = "loop"
    /\ currentPage = 3
    /\ hasNextPage
    /\ ~IsNull(signals)
    /\ Val(signals).announcement = Some(AnnouncementText(1, 3))
    /\ Val(paginationInfo).reason = "pagination announcement"

\* the records without their *Local fields
StripLocals(stories) ==
    [i \in 1..Len(stories) |->
        [stories[i] EXCEPT
            !.company.logoLocal = Null,
            !.media.headerImageLocal = Null,
            !.microsoftProducts =
                [j \in 1..Len(@) |-> [@[j] EXCEPT !.iconLocal = Null]]]]

NoLocalSet(stories) == stories = StripLocals(stories)

EveryDownloadFailed ==
    \A n \in 1..Len(attempts) : attempts[n].outcome = "failed"

LeftByBreak == LoopTest(hasNextPage, currentPage)

\* C6 as stated: a rendered page without story cards, on any page index,
\* ends the loop without an error and the run goes on to the download phase.
C6_ZeroCardsThenDownload ==
    [][/\ (pc = "query" /\ cards' = <<>>) => pc' = "validate"
       /\ (pc = "validate" /\ LeftByBreak) => pc' = "download"]_vars

\* C6 amended: a rendered page without story cards ends the loop without an
\* error, whatever the pagination markup; the run then goes on to the
\* download phase and writes a dataset of the accumulated records if there
\* is at least one, and fails its validation without writing a dataset if
\* there is none (as on page 1).
C6_ZeroCardsThenValidation ==
    [][/\ (pc = "query" /\ cards' = <<>>) => pc' = "validate"
       /\ (pc = "validate" /\ LeftByBreak) =>
             IF Len(allStories) > 0
             THEN pc' = "download"
             ELSE pc' = "failed" /\ IsNull(dataset')
       /\ (LeftByBreak /\ pc' = "done") =>
             /\ ~IsNull(dataset')
             /\ StripLocals(Val(dataset').stories) = StripLocals(allStories)]_vars

\* the second page had no cards and the dataset holds the first page's record
C6_Witness ==
    /\ pc = "done"
    /\ LeftByBreak
    /\ pagesVisited = 2
    /\ ~IsNull(dataset)
    /\ Len(Val(dataset).stories) = 1

\* C7: when a call of the asset fetcher has ended in failure, its
\* destination file does not exist.
C7_NoFileAfterFailure ==
    (~IsNull(fetch) /\ Val(fetch).promise = "rejected")
        => Val(fetch).path \notin DOMAIN files

\* C8: every accumulated record has a non-empty title and a non-empty
\* storyUrl.
C8_TitleAndUrlNonEmpty ==
    \A i \in 1..Len(allStories) :
        allStories[i].title # "" /\ allStories[i].storyUrl # ""

\* C9: the accumulated records have pairwise distinct globalId values and
\* pairwise distinct (page, positionOnPage).
C9_GlobalIdsDistinct ==
    \A i, j \in 1..Len(allStories) :
        i # j =>
            /\ allStories[i].globalId # allStories[j].globalId
            /\ <<allStories[i].page, allStories[i].positionOnPage>>
                  # <<allStories[j].page, allStories[j].positionOnPage>>

\* records of two pages, the first page's record behind a skipped card
C9_Witness ==
    /\ Len(allStories) = 2
    /\ allStories[1].globalId = "p1_2"
    /\ allStories[2].globalId = "p2_1"

\* C10: no run visits more than MAX_PAGES pages.
C10_PageCap == pagesVisited <= MAX_PAGES

\* the fifth page said that a next page exists and the loop ended
C10_Witness ==
    /\ pc = "validate"
    /\ pagesVisited = MAX_PAGES
    /\ hasNextPage
    /\ currentPage = MAX_PAGES + 1

\* the hidden-pagination signal as the page shows it: the container is
\* hidden, both counts are there and read as the same number above 0
HiddenSignalConclusive(dom) ==
    /\ dom.container = "hidden"
    /\ ~IsNull(dom.showValue)
    /\ ~IsNull(dom.showTotal)
    /\ ParseInt(Val(dom.showValue)) = ParseInt(Val(dom.showTotal))
    /\ ParseInt(Val(dom.showTotal)) > 0

\* the markup with the inputs of the hidden-pagination signal taken away
WithoutHiddenSignal(dom) ==
    [dom EXCEPT !.container = "absent", !.showValue = Null, !.showTotal = Null]

\* C11: the signals are evaluated in priority order.  When the container is
\* hidden and the shown count equals the total count with total > 0, the
\* decision is stop, whatever the announcement and the next control say.
\* Otherwise signal 1 decides nothing: the oracle's answer is the one of the
\* other signals alone.
C11_HiddenSignalFirst ==
    [][pc = "decide" =>
          IF HiddenSignalConclusive(Val(signals))
          THEN /\ Val(paginationInfo).reason = "pagination hidden and all results shown"
               /\ LoopStops
          ELSE /\ Val(paginationInfo).reason # "pagination hidden and all results shown"
               /\ Val(paginationInfo) = PaginationInfo(WithoutHiddenSignal(Val(signals)))]_vars

\* the first page hid its pagination and showed 12 of 12 results next to an
\* announcement "Page 1 of 3" and an enabled next control: the loop stopped
C11_Witness ==
    /\ pc = "loop"
    /\ ~hasNextPage
    /\ currentPage = 1
    /\ ~IsNull(signals)
    /\ HiddenSignalConclusive(Val(signals))
    /\ Val(signals).announcement = Some(AnnouncementText(1, 3))
    /\ Val(signals).nextButton = "enabled"

\* neither the hidden-pagination signal nor the announcement is conclusive
FallbackOnly(dom) ==
    /\ ~HiddenSignalConclusive(dom)
    /\ IsNull(PageMatch(OrEmpty(dom.announcement)))

\* C12: when neither the hidden-pagination signal nor the announcement is
\* conclusive, the loop continues if the next control is enabled and stops
\* otherwise: when the control carries the disabled class, has
\* aria-disabled="true", or is not on the page.
C12_NextControlDecides ==
    [][(pc = "decide" /\ FallbackOnly(Val(signals))) =>
          IF Val(signals).nextButton = "enabled"
          THEN LoopContinues
          ELSE LoopStops]_vars

\* the step requests a page after the first
RequestsNextPage == pagesVisited >= 1 /\ pagesVisited' = pagesVisited + 1

\* C13: the request for page N+1 is never issued right after the oracle
\* evaluation of page N: a fixed delay elapses between the two.
C13_DelayBetweenPageRequests ==
    [][RequestsNextPage => delayed]_vars

\* the run was aborted by an exception
Aborted == pc = "failed"

\* C14: a fatal error ends the run with no dataset written.  A missing seed
\* URL is raised before any page is visited; a page that does not render
\* within its bound aborts the run; after the abort no page is requested
\* again, no asset is fetched and the dataset file is not written.
C14_FatalErrorWritesNothing ==
    /\ [](baseUrl = "" => pagesVisited = 0 /\ pc \in {"start", "failed"})
    /\ [](Aborted => /\ IsNull(dataset)
                     /\ IsNull(fetch)
                     /\ attempts = <<>>
                     /\ files = <<>>)
    /\ [][(pc = "start" /\ baseUrl = "") => Aborted']_vars
    /\ [][(pc = "waitSelector" /\ pc' # "settle") => Aborted']_vars
    /\ [][Aborted => UNCHANGED vars]_vars

\* the second page did not render: the run is aborted with the first page's
\* record accumulated and nothing written
C14_Witness ==
    /\ Aborted
    /\ pagesVisited = 2
    /\ Len(allStories) = 1
    /\ IsNull(dataset)

\* the sum of the values of the object f
RECURSIVE SumOfValues(_)
SumOfValues(f) ==
    IF DOMAIN f = {} THEN 0
    ELSE LET key == CHOOSE x \in DOMAIN f : TRUE
         IN  f[key] + SumOfValues([x \in DOMAIN f \ {key} |-> f[x]])

\* the object keys of the pages that contributed a record
ContributingPages(stories) ==
    {ToString(stories[i].page) : i \in 1..Len(stories)}

\* C15: in a written dataset the values of metadata.storiesPerPage sum to
\* metadata.totalStories, which is the length of stories, and storiesPerPage
\* has a key exactly for each page that contributed at least one record.
C15_StoriesPerPageSums ==
    ~IsNull(dataset) =>
        LET meta == Val(dataset).metadata
        IN  /\ SumOfValues(meta.storiesPerPage) = meta.totalStories
            /\ meta.totalStories = Len(Val(dataset).stories)
            /\ DOMAIN meta.storiesPerPage = ContributingPages(Val(dataset).stories)
            /\ \A key \in DOMAIN meta.storiesPerPage : meta.storiesPerPage[key] >= 1

\* pages 1 and 3 contributed a record each, page 2 showed cards but none was
\* accepted: the written storiesPerPage is {"1": 1, "3": 1}
C15_Witness ==
    /\ ~IsNull(dataset)
    /\ pagesVisited >= 3
    /\ DOMAIN Val(dataset).metadata.storiesPerPage = {"1", "3"}
    /\ Val(dataset).metadata.totalStories = 2

\* record a comes before record b in (page, positionOnPage) order
Before(a, b) ==
    \/ a.page < b.page
    \/ a.page = b.page /\ a.positionOnPage < b.positionOnPage

Sorted(stories) ==
    \A i, j \in 1..Len(stories) : i < j => Before(stories[i], stories[j])

\* the records of old are the first records of new, apart from *Local fields
IsPrefix(old, new) ==
    /\ Len(old) <= Len(new)
    /\ StripLocals(SubSeq(new, 1, Len(old))) = StripLocals(old)

\* C16: the accumulated records only grow by appending, during the page
\* loop, and are always sorted by (page, positionOnPage); a record that was
\* appended is never removed or moved, through the download phase and up to
\* the dataset write, and the dataset holds them in that order.
C16_AppendOnlySorted ==
    /\ [](Sorted(allStories))
    /\ [](~IsNull(dataset) => Val(dataset).stories = allStories)
    /\ [][allStories' # allStories =>
             /\ IsPrefix(allStories, allStories')
             /\ Len(allStories') > Len(allStories) => pc = "extract"]_vars

\* two pages contributed a record each, a download has set a *Local field
\* and the dataset is written
C16_Witness ==
    /\ pc = "done"
    /\ Len(allStories) = 2
    /\ allStories[1].page = 1
    /\ allStories[2].page = 2
    /\ ~NoLocalSet(allStories)

\* the requests that are open: the one of the call in hand and those left
\* open by calls that have settled
OpenRequests ==
    (IF ~IsNull(fetch) /\ Val(fetch).request \in {"sent", "piping"} THEN 1 ELSE 0)
    + Cardinality(orphans)

\* asset <<i, k>> comes before asset <<j, m>> in download order
SlotBefore(i, k, j, m) == i < j \/ (i = j /\ k < m)

\* C17: asset fetches are issued strictly one at a time: none starts before
\* the page loop has ended, at most one fetch (with the requests of its
\* redirect hops) is in flight at any moment, and fetches start in
\* accumulated-record order, within a record in the order logo, header,
\* product icons.
C17_OneFetchAtATime ==
    /\ (~IsNull(fetch) \/ attempts # <<>>) => pc \in {"download", "done"}
    /\ OpenRequests <= 1
    /\ \A m, n \in 1..Len(attempts) :
          m < n => SlotBefore(attempts[m].i, attempts[m].k,
                              attempts[n].i, attempts[n].k)
    /\ ~IsNull(fetch) =>
          \A n \in 1..Len(attempts) :
              SlotBefore(attempts[n].i, attempts[n].k, cursor.i, cursor.k)

\* the step writes the dataset file
WritesDataset == dataset' # dataset

\* C18: the dataset file is written at most once per run, and only after the
\* page loop has ended and every asset fetch of every accumulated record has
\* settled; nothing is written to it during the page loop or the download
\* phase.
C18_DatasetWrittenOnceAtEnd ==
    /\ [](~IsNull(dataset) => pc = "done")
    /\ [][WritesDataset =>
             /\ IsNull(dataset)
             /\ pc = "download"
             /\ pc' = "done"
             /\ IsNull(fetch)
             /\ Len(attempts) = AssetCount(allStories)
             /\ \A a \in Slots(allStories) :
                   AssetUrl(allStories[a[1]], a[2]) # "" =>
                       \E n \in 1..Len(attempts) :
                           attempts[n].i = a[1] /\ attempts[n].k = a[2]]_vars
    /\ [][pc = "done" => UNCHANGED dataset]_vars

\* the dataset is written after three fetches have settled, the first one
\* with success and the last one with a failure
C18_Witness ==
    /\ pc = "done"
    /\ ~IsNull(dataset)
    /\ Len(attempts) = 3
    /\ attempts[1].outcome = "ok"
    /\ attempts[3].outcome = "failed"

\* the assets of the records that have a non-empty remote URL
RemoteSlots(stories) ==
    {a \in Slots(stories) : AssetUrl(stories[a[1]], a[2]) # ""}

\* the settled fetches of asset a
AttemptsOf(a) ==
    {n \in 1..Len(attempts) : attempts[n].i = a[1] /\ attempts[n].k = a[2]}

\* C20: in the download phase every accumulated record is visited exactly
\* once, and for each of its assets with a non-empty remote URL exactly one
\* fetch is attempted, whatever the outcome of the earlier fetches; each
\* *Local field is written at most once, and only for a record that is
\* already accumulated.
C20_EachAssetAttemptedOnce ==
    /\ [](\A n \in 1..Len(attempts) :
             /\ attempts[n].i \in 1..Len(allStories)
             /\ attempts[n].k \in 1..NumSlots(allStories[attempts[n].i])
             /\ AssetUrl(allStories[attempts[n].i], attempts[n].k) # "")
    /\ [](\A m, n \in 1..Len(attempts) :
             m # n => <<attempts[m].i, attempts[m].k>> # <<attempts[n].i, attempts[n].k>>)
    /\ [](pc = "done" =>
             \A a \in RemoteSlots(allStories) : Cardinality(AttemptsOf(a)) = 1)
    /\ [][pc = "download" => cursor'.i >= cursor.i]_vars
    /\ [][allStories' # allStories =>
             \A a \in Slots(allStories') :
                IF a \in Slots(allStories)
                THEN AssetLocal(allStories'[a[1]], a[2]) # AssetLocal(allStories[a[1]], a[2])
                        => /\ IsNull(AssetLocal(allStories[a[1]], a[2]))
                           /\ pc = "download"
                           /\ a = <<cursor.i, cursor.k>>
                ELSE IsNull(AssetLocal(allStories'[a[1]], a[2]))]_vars

\* a record without logo and header image and with two product icons: the
\* first icon's fetch failed, the second icon was fetched all the same, and
\* the run is over
C20_Witness ==
    /\ pc = "done"
    /\ Len(attempts) >= 2
    /\ attempts[1].k = 3
    /\ attempts[1].outcome = "failed"
    /\ attempts[2].k = 4
    /\ attempts[2].outcome = "ok"

\* the company name of a loaded story, "" when the story has none
CompanyNameOf(story) ==
    IF "name" \in DOMAIN story.company THEN story.company.name ELSE ""

\* the stories the front-end is to show for a search text and an industry
ExpectedStories(stories, text, industry) ==
    LET term == ToLowerCase(text)
    IN  SelectSeq(stories,
                  LAMBDA story :
                      /\ \/ term = ""
                         \/ Includes(ToLowerCase(story.title), term)
                         \/ Includes(ToLowerCase(CompanyNameOf(story)), term)
                         \/ Includes(ToLowerCase(story.industry), term)
                      /\ industry = "" \/ story.industry = industry)

\* C19: in the front-end, after any sequence of search and industry-filter
\* events on a dataset written by the scraper, filteredStories is exactly the
\* stories, in loaded order, whose title, company name or industry contains
\* the lower-cased search term (or the term is empty) and whose industry is
\* the selected one (or none is selected); the event handler never fails.
C19_FilterShowsMatches ==
    ~IsNull(app) =>
        /\ Val(app).error = ""
        /\ Val(app).filteredStories =
              ExpectedStories(Val(app).stories, Val(app).searchInput,
                              Val(app).industryFilter)

\* the run has reached its end: the dataset is written, or the run was aborted
RunEnded == pc \in {"done", "failed"}

\* C21: every call of the asset fetcher eventually settles, as a no-op, a
\* success or a failure, whatever the servers answer (success, error status,
\* chains of redirects including a redirect cycle, a stalled transfer); so
\* the run always reaches its end.
C21_EveryCallSettles ==
    /\ Pending ~> ~Pending
    /\ <>RunEnded

====
